---- MODULE Spec2Model ----
(***************************************************************************)
(* Notice board of StreamVibe-backend: controllers/noticeController.js     *)
(* (createNotice, getNotices, updateNotice, createNotifications,           *)
(* deleteNotice) over the Notice, Notification and User collections.       *)
(*                                                                         *)
(* Every handler is an async function: the database calls it awaits are    *)
(* the points where other requests interleave, so a handler is one action  *)
(* per awaited database call.  The code that runs synchronously before an  *)
(* await belongs to the action of that await.                              *)
(*                                                                         *)
(* Abstractions: a title or content string is its length (0 is the         *)
(* undefined / empty string); priority and attachmentUrl are carried       *)
(* through unchanged by the code and are left out; Date.now() is a logical *)
(* clock.  The Notice schema under src/ is the flat variant (branch, year, *)
(* teacher); the fields the controller writes (targetAudience, author,     *)
(* scheduledFor, isPublished) belong to the structured variant, whose      *)
(* constraints are taken from the data-model description.                  *)
(***************************************************************************)
EXTENDS Integers, Sequences, FiniteSets, Bags

\* ------------------------------------------------------------------ bounds
NumProcs == 2        \* requests that can be in flight at the same time
MaxReqs == 3         \* requests accepted in one behaviour
MaxNotices == 2      \* notice ids that can be allocated
MaxTotal == 4        \* notices the listing specification stores
MaxPage == 3         \* largest page number asked of the listing
MaxLimit == 3        \* largest page size asked of the listing

\* --------------------------------------------------------- program constants
MaxTitleLen == 100
MaxContentLen == 1000
DefaultPage == 1
DefaultLimit == 10
Categories == {"General", "Academic", "Event", "Important", "Other"}

Undef == "undefined"

Procs == 1..NumProcs
NoticeIds == 1..MaxNotices

\* ---------------------------------------------------------------- users
\* The User collection is an external collaborator: documents with a role,
\* a branch and a year.  No handler of this repository writes it.
User(id, role, branch, year) ==
    [id |-> id, role |-> role, branch |-> branch, year |-> year]

TeacherA == User("tA", "teacher", Undef, Undef)
TeacherB == User("tB", "teacher", Undef, Undef)
Admin == User("adm", "admin", Undef, Undef)
Student1 == User("s1", "student", "CSE", "1")
Student2 == User("s2", "student", "ECE", "2")
Student3 == User("s3", "student", "CSE", "2")

\* req.user of the protected routes: authorize('teacher', 'admin')
ActingUsers == {TeacherA, TeacherB, Admin}

\* Users that post notices in the model.
Authors == {TeacherA}

UserColl == <<TeacherA, Student1, Admin, Student2, TeacherB>>
UserIds == {"tA", "tB", "adm", "s1", "s2", "s3"}

\* ------------------------------------------------------- target audiences
\* A selector of the target audience is undefined, an array of strings, or
\* some other (truthy) value that is not an array.
NoSel == [kind |-> "undefined", items |-> <<>>]
Arr(s) == [kind |-> "array", items |-> s]
Scalar == [kind |-> "scalar", items |-> <<>>]

NoAudience == [present |-> FALSE, branches |-> NoSel, years |-> NoSel]
Audience(b, y) == [present |-> TRUE, branches |-> b, years |-> y]

VARIABLES
    users,      \* User collection, in collection order
    notices,    \* Notice collection: id -> document (exists = FALSE: none)
    nextId,     \* next notice id the database generates
    now,        \* logical clock behind Date.now
    notifs,     \* Notification collection, a bag of documents
    req,        \* requests in flight, one per slot
    started,    \* number of requests accepted so far
    list        \* the listing request (getNotices)

vars == <<users, notices, nextId, now, notifs, req, started, list>>


\* ------------------------------------------------------------- documents
\* Notice document of the structured variant.  exists = FALSE stands for
\* "no document" (null from findById / findByIdAndUpdate).
NullDoc ==
    [exists |-> FALSE, id |-> 0, title |-> 0, content |-> 0,
     category |-> Undef, targetAudience |-> NoAudience,
     scheduledFor |-> Undef, author |-> Undef, isPublished |-> FALSE,
     createdAt |-> 0]

\* req.body of POST / PUT.  isPublished is a JSON boolean ("true",
\* "false") or undefined.
Payload(t, c, cat, ta, sched, pub) ==
    [title |-> t, content |-> c, category |-> cat, targetAudience |-> ta,
     scheduledFor |-> sched, isPublished |-> pub]

Truthy(v) == v \notin {Undef, "false"}

\* Audiences used by the requests of the main specification.
MainAudiences == { NoAudience, Audience(Arr(<<"CSE">>), NoSel) }

BadAudiences ==
    { Audience(Scalar, NoSel), Audience(Arr(<<"All">>), Scalar) }

\* Bodies of POST /notices: valid ones (immediate or scheduled) and ones
\* that break one field constraint each.
CreatePayloads ==
    { Payload(MaxTitleLen, MaxContentLen, "General", ta, sched, Undef) :
          ta \in MainAudiences, sched \in {Undef, "future"} }
    \cup { Payload(MaxTitleLen + 1, MaxContentLen, "General", NoAudience, Undef, Undef),
           Payload(0, MaxContentLen, "General", NoAudience, "future", Undef),
           Payload(MaxTitleLen, MaxContentLen + 1, "General", NoAudience, Undef, Undef),
           Payload(MaxTitleLen, MaxContentLen, "Bogus", NoAudience, Undef, Undef) }
    \cup { Payload(MaxTitleLen, MaxContentLen, "General", ta, Undef, Undef) :
          ta \in BadAudiences }

\* Bodies of PUT /notices/:id: partial updates, and ones that break one
\* field constraint each while asking for publication.
UpdatePayloads ==
    { Payload(0, 0, Undef, NoAudience, Undef, pub) : pub \in {Undef, "true", "false"} }
    \cup { Payload(0, 0, "Event", Audience(Arr(<<"CSE">>), NoSel), Undef, "true") }
    \cup { Payload(MaxTitleLen + 1, 0, Undef, NoAudience, Undef, "true"),
           Payload(0, MaxContentLen + 1, Undef, NoAudience, Undef, "true"),
           Payload(0, 0, "Bogus", NoAudience, Undef, "true"),
           Payload(0, 0, Undef, Audience(Scalar, NoSel), Undef, "true") }

\* ------------------------------------------------------------ validation
\* createNotice, "Validate target audience": a selector that is truthy and
\* not an array is refused by the controller.
AudienceArraysOK(ta) ==
    ta.present =>
        /\ ~(ta.branches.kind # "undefined" /\ ta.branches.kind # "array")
        /\ ~(ta.years.kind # "undefined" /\ ta.years.kind # "array")

\* NoticeSchema: required and maxlength of title and content, required and
\* enum of category.
TitleOK(t) == t >= 1 /\ t <= MaxTitleLen
ContentOK(c) == c >= 1 /\ c <= MaxContentLen
CategoryOK(cat) == cat \in Categories

\* Structured variant of the schema: the selectors of a supplied target
\* audience are arrays of strings.
AudienceSchemaOK(ta) ==
    ta.present => ta.branches.kind # "scalar" /\ ta.years.kind # "scalar"

\* Validation run by Notice.create on the whole document.
ValidateCreate(b) ==
    /\ TitleOK(b.title)
    /\ ContentOK(b.content)
    /\ CategoryOK(b.category)
    /\ AudienceSchemaOK(b.targetAudience)

\* Fault variant of ValidateUpdate: the update runs without validators.
ValidateUpdateOff(b) == TRUE

\* Validation run by findByIdAndUpdate with runValidators: only the paths
\* the update sets are validated (an undefined field is not set).
ValidateUpdate(b) ==
    /\ b.title # 0 => TitleOK(b.title)
    /\ b.content # 0 => ContentOK(b.content)
    /\ b.category # Undef => CategoryOK(b.category)
    /\ AudienceSchemaOK(b.targetAudience)

\* --------------------------------------------------- notification fan-out
Includes(arr, x) == \E i \in 1..Len(arr) : arr[i] = x
Elems(arr) == { arr[i] : i \in 1..Len(arr) }

NoFilter == [on |-> FALSE, in |-> {}]
In(S) == [on |-> TRUE, in |-> S]

\* Fault variant of BuildQuery: the 'All' wildcard is not recognised.
BuildQueryNoWildcard(notice) ==
    LET ta == notice.targetAudience
        b == ta.branches
        y == ta.years
    IN  [role |-> "student",
         branch |-> IF ta.present /\ b.kind # "undefined"
                    THEN In(Elems(b.items)) ELSE NoFilter,
         year |-> IF ta.present /\ y.kind # "undefined"
                  THEN In(Elems(y.items)) ELSE NoFilter]

\* createNotifications, lines 230-242: query = { role: 'student' } narrowed
\* by branch / year unless the selector is missing or includes 'All'.
BuildQuery(notice) ==
    LET ta == notice.targetAudience
        b == ta.branches
        y == ta.years
    IN  [role |-> "student",
         branch |-> IF ta.present /\ b.kind # "undefined" /\ ~Includes(b.items, "All")
                    THEN In(Elems(b.items)) ELSE NoFilter,
         year |-> IF ta.present /\ y.kind # "undefined" /\ ~Includes(y.items, "All")
                  THEN In(Elems(y.items)) ELSE NoFilter]

\* Fault variant of MatchesQuery: the role of the user is not looked at.
MatchesQueryAnyRole(u, q) ==
    /\ q.branch.on => u.branch \in q.branch.in
    /\ q.year.on => u.year \in q.year.in

MatchesQuery(u, q) ==
    /\ u.role = q.role
    /\ q.branch.on => u.branch \in q.branch.in
    /\ q.year.on => u.year \in q.year.in

\* User.find(query): the matching users in collection order.
FindUsers(coll, q) == SelectSeq(coll, LAMBDA u : MatchesQuery(u, q))

\* students.map(...): one notification document per student found.
BuildNotifications(students, notice) ==
    [i \in 1..Len(students) |->
        [recipient |-> students[i].id, type |-> "notice_posted",
         noticeId |-> notice.id]]

RECURSIVE SeqToBag(_)
SeqToBag(s) ==
    IF s = <<>> THEN EmptyBag ELSE SetToBag({Head(s)}) (+) SeqToBag(Tail(s))

\* Notification.insertMany(docs)
InsertMany(coll, docs) == coll (+) SeqToBag(docs)

\* The runs createNotifications(notice) can take.  "ok": every document is
\* inserted.  "lookup": notice is null (reading notice.targetAudience
\* throws) or User.find rejects: nothing is inserted.  "insert": the ordered
\* bulk insert stops at a document, the ones before it stay inserted.
FanoutRuns(coll, notice) ==
    IF ~notice.exists
    THEN { [outcome |-> "lookup", found |-> <<>>, inserted |-> <<>>] }
    ELSE LET students == FindUsers(coll, BuildQuery(notice))
             docs == BuildNotifications(students, notice)
         IN  { [outcome |-> "ok", found |-> students, inserted |-> docs],
               [outcome |-> "lookup", found |-> <<>>, inserted |-> <<>>] }
             \cup { [outcome |-> "insert", found |-> students,
                     inserted |-> SubSeq(docs, 1, k)] : k \in 0..(Len(docs) - 1) }

\* Fault variant of FanoutThrows: the error is thrown on to the handler.
FanoutRethrows(run) == run.outcome # "ok"

\* try { ... } catch (error) { console.error(...) }: an error of the fan-out
\* is logged and does not leave createNotifications.
FanoutThrows(run) == FALSE

\* ---------------------------------------------------------------- requests
IdleReq ==
    [op |-> "none", pc |-> "idle", user |-> TeacherA, id |-> 0,
     body |-> Payload(0, 0, Undef, NoAudience, Undef, Undef),
     notice |-> NullDoc, updated |-> NullDoc, status |-> 0,
     \* history of the request, read by the properties only
     wrote |-> FALSE, targetAtWrite |-> NullDoc, fanout |-> "none",
     found |-> <<>>, added |-> <<>>]

InFlight(p) == req[p].pc \notin {"idle", "done"}

\* A request is served by the first free slot (the slots are anonymous).
FreeSlot(p) ==
    /\ req[p].pc = "idle"
    /\ \A q \in Procs : q < p => req[q].pc # "idle"
    /\ started < MaxReqs

Respond(r, code) == [r EXCEPT !.pc = "done", !.status = code]

\* Fault variant of PublishOnCreate: scheduling is ignored.
PublishOnCreateAlways(scheduledFor) == TRUE

\* createNotice, line 48
PublishOnCreate(scheduledFor) == ~Truthy(scheduledFor)

\* Fault variant of Authorized: any teacher or admin passes.
AuthorizedByRole(notice, user) == user.role \in {"teacher", "admin"}

\* updateNotice / deleteNotice, "Check ownership"
Authorized(notice, user) == ~(notice.author # user.id /\ user.role # "admin")

\* Fault variant of PublishOnUpdate: the stored flag is not looked at.
PublishOnUpdateNoEdge(isPublished, notice) == Truthy(isPublished)

\* updateNotice, line 210
PublishOnUpdate(isPublished, notice) == Truthy(isPublished) /\ ~notice.isPublished


\* ------------------------------------------------------------ createNotice
\* Notice.create({...}): the document the handler builds from req.body.
NewNotice(id, b, user, clock) ==
    [exists |-> TRUE, id |-> id, title |-> b.title, content |-> b.content,
     category |-> b.category, targetAudience |-> b.targetAudience,
     scheduledFor |-> b.scheduledFor, author |-> user.id,
     isPublished |-> PublishOnCreate(b.scheduledFor), createdAt |-> clock]

\* POST /notices up to the end of "await Notice.create(...)".  A scheduled
\* notice has no further await: the 201 is sent in the same step.
CreateNotice(p) ==
    /\ FreeSlot(p)
    /\ \E user \in Authors, b \in CreatePayloads :
         LET r0 == [IdleReq EXCEPT !.op = "create", !.user = user, !.body = b]
         IN  IF ~AudienceArraysOK(b.targetAudience) \/ ~ValidateCreate(b)
             THEN /\ req' = [req EXCEPT ![p] = Respond(r0, 400)]
                  /\ UNCHANGED <<notices, nextId, now>>
             ELSE /\ nextId <= MaxNotices
                  /\ LET doc == NewNotice(nextId, b, user, now)
                         r1 == [r0 EXCEPT !.id = nextId, !.notice = doc,
                                          !.wrote = TRUE]
                     IN  /\ notices' = [notices EXCEPT ![nextId] = doc]
                         /\ req' = [req EXCEPT ![p] =
                                IF PublishOnCreate(b.scheduledFor)
                                THEN [r1 EXCEPT !.pc = "cFanout"]
                                ELSE Respond(r1, 201)]
                  /\ nextId' = nextId + 1
                  /\ now' = now + 1
    /\ started' = started + 1
    /\ UNCHANGED <<users, notifs, list>>

\* "await createNotifications(notice)" and the response that follows it.
RunFanout(p, notice, success) ==
    \E run \in FanoutRuns(users, notice) :
        /\ notifs' = InsertMany(notifs, run.inserted)
        /\ req' = [req EXCEPT ![p] =
              Respond([req[p] EXCEPT
                         !.fanout = IF run.outcome = "ok" THEN "ok" ELSE "failed",
                         !.found = [i \in 1..Len(run.found) |-> run.found[i].id],
                         !.added = run.inserted],
                      IF FanoutThrows(run) THEN 400 ELSE success)]

CreateFanout(p) ==
    /\ req[p].pc = "cFanout"
    /\ RunFanout(p, req[p].notice, 201)
    /\ UNCHANGED <<users, notices, nextId, now, started, list>>

\* ------------------------------------------------------------ updateNotice
\* findByIdAndUpdate(id, {...}): the fields req.body supplies replace the
\* stored ones, the others stay.
ApplyUpdate(doc, b) ==
    [doc EXCEPT
       !.title = IF b.title # 0 THEN b.title ELSE @,
       !.content = IF b.content # 0 THEN b.content ELSE @,
       !.category = IF b.category # Undef THEN b.category ELSE @,
       !.targetAudience = IF b.targetAudience.present THEN b.targetAudience ELSE @,
       !.scheduledFor = IF b.scheduledFor # Undef THEN b.scheduledFor ELSE @,
       !.isPublished = IF b.isPublished # Undef THEN b.isPublished = "true" ELSE @]

\* PUT /notices/:id up to the ownership check: "await Notice.findById".
UpdateFind(p) ==
    /\ FreeSlot(p)
    /\ \E user \in ActingUsers, id \in NoticeIds, b \in UpdatePayloads :
         LET notice == notices[id]
             r0 == [IdleReq EXCEPT !.op = "update", !.user = user, !.id = id,
                                   !.body = b, !.notice = notice]
         IN  req' = [req EXCEPT ![p] =
                       IF ~notice.exists THEN Respond(r0, 404)
                       ELSE IF ~Authorized(notice, user) THEN Respond(r0, 403)
                       ELSE [r0 EXCEPT !.pc = "uWrite"]]
    /\ started' = started + 1
    /\ UNCHANGED <<users, notices, nextId, now, notifs, list>>

\* "await Notice.findByIdAndUpdate(..., { new: true, runValidators: true })":
\* a validation error is thrown to the handler's catch (400); otherwise the
\* stored document is replaced, or null comes back when there is none.
UpdateWrite(p) ==
    /\ req[p].pc = "uWrite"
    /\ LET r == req[p]
           stored == notices[r.id]
       IN  IF ~ValidateUpdate(r.body)
           THEN /\ req' = [req EXCEPT ![p] = Respond(r, 400)]
                /\ UNCHANGED notices
           ELSE LET updated == IF stored.exists THEN ApplyUpdate(stored, r.body)
                               ELSE NullDoc
                    r1 == [r EXCEPT !.updated = updated, !.wrote = stored.exists,
                                    !.targetAtWrite = stored]
                IN  /\ notices' = [notices EXCEPT ![r.id] = updated]
                    /\ req' = [req EXCEPT ![p] =
                          IF PublishOnUpdate(r.body.isPublished, r.notice)
                          THEN [r1 EXCEPT !.pc = "uFanout"]
                          ELSE Respond(r1, 200)]
    /\ UNCHANGED <<users, nextId, now, notifs, started, list>>

UpdateFanout(p) ==
    /\ req[p].pc = "uFanout"
    /\ RunFanout(p, req[p].updated, 200)
    /\ UNCHANGED <<users, notices, nextId, now, started, list>>

\* ------------------------------------------------------------ deleteNotice
DeleteFind(p) ==
    /\ FreeSlot(p)
    /\ \E user \in ActingUsers, id \in NoticeIds :
         LET notice == notices[id]
             r0 == [IdleReq EXCEPT !.op = "delete", !.user = user, !.id = id,
                                   !.notice = notice]
         IN  req' = [req EXCEPT ![p] =
                       IF ~notice.exists THEN Respond(r0, 404)
                       ELSE IF ~Authorized(notice, user) THEN Respond(r0, 403)
                       ELSE [r0 EXCEPT !.pc = "dRemove"]]
    /\ started' = started + 1
    /\ UNCHANGED <<users, notices, nextId, now, notifs, list>>

\* "await notice.remove()": removes the document with that id, if any.
DeleteRemove(p) ==
    /\ req[p].pc = "dRemove"
    /\ notices' = [notices EXCEPT ![req[p].id] = NullDoc]
    /\ req' = [req EXCEPT ![p] =
          Respond([req[p] EXCEPT !.wrote = notices[req[p].id].exists,
                                 !.targetAtWrite = notices[req[p].id]], 200)]
    /\ UNCHANGED <<users, nextId, now, notifs, started, list>>

\* The response has been sent: the slot serves the next request.
Finish(p) ==
    /\ req[p].pc = "done"
    /\ req' = [req EXCEPT ![p] = IdleReq]
    /\ UNCHANGED <<users, notices, nextId, now, notifs, started, list>>

\* --------------------------------------------------------------- getNotices
ListIds == 1..MaxTotal

IdleList ==
    [pc |-> "idle", query |-> [category |-> Undef, branch |-> Undef],
     page |-> 0, limit |-> 0, data |-> <<>>,
     total |-> 0, count |-> 0, totalPages |-> 0, status |-> 0,
     \* notices matching the query when find ran, and whether they still
     \* were the matching ones when countDocuments ran
     matching |-> {}, modified |-> FALSE]

\* A filter of the query is set when the query string carries the parameter.
\* A document that lacks the field (branch, on a structured notice) does not
\* match a filter on it.
Field(doc, f) == IF f \in DOMAIN doc THEN doc[f] ELSE Undef

MatchesFilters(doc, q) ==
    /\ doc.exists
    /\ \A f \in DOMAIN q : q[f] # Undef => Field(doc, f) = q[f]

\* Notice.find(query) before sort / skip / limit: collection order.
RECURSIVE FindNotices(_, _, _)
FindNotices(coll, q, ids) ==
    IF ids = {} THEN <<>>
    ELSE LET i == CHOOSE x \in ids : \A y \in ids : x <= y
             rest == FindNotices(coll, q, ids \ {i})
         IN  IF MatchesFilters(coll[i], q) THEN <<coll[i]>> \o rest ELSE rest

\* .sort({ createdAt: -1 })
RECURSIVE SortNewestFirst(_)
SortNewestFirst(docs) ==
    IF docs = <<>> THEN <<>>
    ELSE LET k == CHOOSE x \in 1..Len(docs) :
                    \A y \in 1..Len(docs) : docs[x].createdAt >= docs[y].createdAt
             rest == [n \in 1..(Len(docs) - 1) |->
                        IF n < k THEN docs[n] ELSE docs[n + 1]]
         IN  <<docs[k]>> \o SortNewestFirst(rest)

\* Fault variant of SkipOf: pages counted from 0.
SkipOfFromZero(page, limit) == page * limit

\* const skip = (parseInt(page) - 1) * parseInt(limit)
SkipOf(page, limit) == (page - 1) * limit

\* .skip(skip).limit(limit) applied to the sorted result
Slice(docs, skip, limit) ==
    SubSeq(docs, skip + 1, IF skip + limit <= Len(docs) THEN skip + limit ELSE Len(docs))

\* Math.ceil(total / limit)
Ceil(total, limit) ==
    IF total % limit = 0 THEN total \div limit ELSE (total \div limit) + 1

PageInputs == (1..MaxPage) \cup {DefaultPage}
LimitInputs == (1..MaxLimit) \cup {DefaultLimit}
ListQueries ==
    [category : {Undef, "General", "Event"}, branch : {Undef, "CSE"}]

MatchingIds(q) == { i \in DOMAIN notices : MatchesFilters(notices[i], q) }
MatchingDocs(q) == { notices[i] : i \in MatchingIds(q) }

\* GET /notices up to the end of "await Notice.find(query)...".
ListFind ==
    /\ list.pc = "idle"
    /\ \E q \in ListQueries, page \in PageInputs, limit \in LimitInputs :
         list' = [IdleList EXCEPT
                    !.pc = "lCount", !.query = q, !.page = page, !.limit = limit,
                    !.data = Slice(SortNewestFirst(FindNotices(notices, q, DOMAIN notices)),
                                   SkipOf(page, limit), limit),
                    !.matching = MatchingDocs(q)]
    /\ UNCHANGED <<users, notices, nextId, now, notifs, req, started>>

\* "await Notice.countDocuments(query)" and the 200 response.
ListCount ==
    /\ list.pc = "lCount"
    /\ LET total == Cardinality(MatchingIds(list.query))
       IN  list' = [list EXCEPT
                      !.pc = "done", !.status = 200,
                      !.count = Len(list.data),
                      !.total = total,
                      !.totalPages = Ceil(total, list.limit),
                      !.modified = (MatchingDocs(list.query) # list.matching)]
    /\ UNCHANGED <<users, notices, nextId, now, notifs, req, started>>

ListFinish ==
    /\ list.pc = "done"
    /\ list' = IdleList
    /\ UNCHANGED <<users, notices, nextId, now, notifs, req, started>>

\* Writes of other requests, as the listing sees them: a notice persisted by
\* createNotice (Notice.create) and one removed by deleteNotice.
StoreCreate ==
    /\ nextId <= MaxTotal
    /\ \E cat \in {"General", "Event"} :
         notices' = [notices EXCEPT ![nextId] =
            NewNotice(nextId,
                      Payload(MaxTitleLen, MaxContentLen, cat, NoAudience, Undef, Undef),
                      TeacherA, now)]
    /\ nextId' = nextId + 1
    /\ now' = now + 1
    /\ UNCHANGED <<users, notifs, req, started, list>>

StoreRemove ==
    /\ \E i \in DOMAIN notices :
         /\ notices[i].exists
         /\ notices' = [notices EXCEPT ![i] = NullDoc]
    /\ UNCHANGED <<users, nextId, now, notifs, req, started, list>>

InitList ==
    /\ users = UserColl
    /\ notices = [i \in ListIds |-> NullDoc]
    /\ nextId = 1
    /\ now = 1
    /\ notifs = EmptyBag
    /\ req = [p \in Procs |-> IdleReq]
    /\ started = 0
    /\ list = IdleList

NextList == ListFind \/ ListCount \/ ListFinish \/ StoreCreate \/ StoreRemove

SpecList == InitList /\ [][NextList]_vars

\* --------------------------------------------- fan-out over any collection
\* Users the fan-out specification draws its User collection from, and the
\* audiences of the notice it fans out.
UserUniverse == <<TeacherA, Student1, Admin, Student2, Student3, TeacherB>>

RECURSIVE SubSeqs(_)
SubSeqs(s) ==
    IF s = <<>> THEN { <<>> }
    ELSE LET rest == SubSeqs(Tail(s))
         IN  rest \cup { <<Head(s)>> \o t : t \in rest }

FanBranches ==
    { NoSel, Arr(<<>>), Arr(<<"All">>), Arr(<<"CSE">>), Arr(<<"CSE", "ECE">>),
      Arr(<<"EEE", "All">>) }
FanYears == { NoSel, Arr(<<"All">>), Arr(<<"2">>), Arr(<<"1", "2">>) }
FanAudiences ==
    { NoAudience } \cup { Audience(b, y) : b \in FanBranches, y \in FanYears }

\* The state right after createNotice persisted an immediate notice.
InitFan ==
    /\ users \in SubSeqs(UserUniverse)
    /\ \E ta \in FanAudiences :
         LET doc == NewNotice(1, Payload(MaxTitleLen, MaxContentLen, "General",
                                         ta, Undef, Undef), TeacherA, 1)
         IN  /\ notices = [i \in NoticeIds |-> IF i = 1 THEN doc ELSE NullDoc]
             /\ req = [p \in Procs |->
                         IF p = 1
                         THEN [IdleReq EXCEPT !.op = "create", !.pc = "cFanout",
                                  !.id = 1, !.notice = doc, !.wrote = TRUE,
                                  !.body = Payload(MaxTitleLen, MaxContentLen,
                                                   "General", ta, Undef, Undef)]
                         ELSE IdleReq]
    /\ nextId = 2
    /\ now = 2
    /\ notifs = EmptyBag
    /\ started = 1
    /\ list = IdleList

NextFan == \E p \in Procs : CreateFanout(p) \/ Finish(p)

SpecFan == InitFan /\ [][NextFan]_vars

\* -------------------------------------------------------- main specification
Init ==
    /\ users = UserColl
    /\ notices = [i \in NoticeIds |-> NullDoc]
    /\ nextId = 1
    /\ now = 1
    /\ notifs = EmptyBag
    /\ req = [p \in Procs |-> IdleReq]
    /\ started = 0
    /\ list = IdleList

Next ==
    \E p \in Procs :
        \/ CreateNotice(p)
        \/ CreateFanout(p)
        \/ UpdateFind(p)
        \/ UpdateWrite(p)
        \/ UpdateFanout(p)
        \/ DeleteFind(p)
        \/ DeleteRemove(p)
        \/ Finish(p)

Spec == Init /\ [][Next]_vars

\* Requests served one after the other: a request is accepted only when no
\* other one is between its first database call and its response.
Serial == Cardinality({ p \in Procs : InFlight(p) }) <= 1

NextSeq == Next /\ Serial'

SpecSeq == Init /\ [][NextSeq]_vars


\* ============================================================== properties
UsersOf == { users[i] : i \in 1..Len(users) }

NotifDoc(id, uid) == [recipient |-> uid, type |-> "notice_posted", noticeId |-> id]

\* Notifications stored for the pair (notice id, recipient).
Copies(coll, id, uid) == CopiesIn(NotifDoc(id, uid), coll)

\* The target audience of a notice, as the data model states it.
SelectorAdmits(sel, v) ==
    sel.kind = "undefined" \/ "All" \in Elems(sel.items) \/ v \in Elems(sel.items)

IsRecipient(u, notice) ==
    /\ u.role = "student"
    /\ notice.targetAudience.present =>
          /\ SelectorAdmits(notice.targetAudience.branches, u.branch)
          /\ SelectorAdmits(notice.targetAudience.years, u.year)

\* The field constraints of the data model, on a creation body and on the
\* fields an update body supplies.
ViolatesOnCreate(b) ==
    \/ b.title < 1 \/ b.title > MaxTitleLen
    \/ b.content < 1 \/ b.content > MaxContentLen
    \/ b.category \notin Categories
    \/ b.targetAudience.branches.kind = "scalar"
    \/ b.targetAudience.years.kind = "scalar"

ViolatesOnUpdate(b) ==
    \/ b.title > MaxTitleLen
    \/ b.content > MaxContentLen
    \/ (b.category # Undef /\ b.category \notin Categories)
    \/ b.targetAudience.branches.kind = "scalar"
    \/ b.targetAudience.years.kind = "scalar"

Violates(r) ==
    \/ r.op = "create" /\ ViolatesOnCreate(r.body)
    \/ r.op = "update" /\ ViolatesOnUpdate(r.body)

Done(p) == req[p].pc = "done"

\* Step of slot p that is the handler's call of Notice.create.
CreateStep(p) == req[p].pc = "idle" /\ req'[p].op = "create"
\* Step of slot p that is a run of createNotifications.
FanoutStep(p) == req[p].pc \in {"cFanout", "uFanout"} /\ req'[p].pc = "done"

C2_ScheduledCreate ==
    [][\A p \in Procs :
         (CreateStep(p) /\ req'[p].body.scheduledFor = "future" /\ req'[p].wrote)
         => /\ notices'[req'[p].id].exists
            /\ ~notices'[req'[p].id].isPublished
            /\ notifs' = notifs
            /\ req'[p].pc = "done" /\ req'[p].status = 201
            /\ req'[p].fanout = "none"
      ]_vars

C2_Witness ==
    \E p \in Procs :
        /\ Done(p) /\ req[p].op = "create" /\ req[p].status = 201
        /\ req[p].body.scheduledFor = "future"
        /\ notices[req[p].id].exists /\ ~notices[req[p].id].isPublished

\* ---- C3 ------------------------------------------------------------------
\* C3: with the Update requests on a notice served one after the other, the
\* write of an Update is followed by a run of the fan-out exactly when it
\* changes the stored isPublished from false to true, and that run is the
\* only one of the request; an Update whose target is stored as published
\* runs no fan-out and adds no notification.
C3_FanoutOnPublishEdge ==
    [][\A p \in Procs :
         /\ (req[p].pc = "uWrite" /\ req'[p].pc # "uWrite" /\ req'[p].status # 400)
            => LET before == notices[req[p].id]
                   after == notices'[req[p].id]
               IN  /\ notifs' = notifs
                   /\ (req'[p].pc = "uFanout") <=> (~before.isPublished /\ after.isPublished)
                   /\ req'[p].pc # "uFanout"
                        => req'[p].pc = "done" /\ req'[p].fanout = "none"
         /\ req[p].pc = "uFanout" /\ req'[p].pc # "uFanout"
            => req'[p].pc = "done" /\ req'[p].fanout # "none"
      ]_vars

\* An Update published an unpublished notice and its fan-out ran.
C3_Witness ==
    \E p \in Procs :
        /\ Done(p) /\ req[p].op = "update" /\ req[p].status = 200
        /\ req[p].targetAtWrite.exists /\ ~req[p].targetAtWrite.isPublished
        /\ req[p].updated.isPublished
        /\ req[p].fanout = "ok"

\* ---- C4 ------------------------------------------------------------------
\* C4: an Update or Delete of an existing notice by a user who is neither its
\* author nor an admin answers 403 and changes neither the Notice nor the
\* Notification collection.
C4_ForbiddenLeavesState ==
    [][\A p \in Procs :
         (req[p].pc = "idle" /\ req'[p].op \in {"update", "delete"}
             /\ notices[req'[p].id].exists
             /\ notices[req'[p].id].author # req'[p].user.id
             /\ req'[p].user.role # "admin")
         => /\ req'[p].pc = "done" /\ req'[p].status = 403
            /\ notices' = notices
            /\ notifs' = notifs
      ]_vars

C4_Witness ==
    \E p \in Procs :
        /\ Done(p) /\ req[p].op \in {"update", "delete"} /\ req[p].status = 403
        /\ req[p].user = TeacherB
        /\ notices[req[p].id].exists /\ notices[req[p].id].author = "tA"

\* ---- C5 ------------------------------------------------------------------
\* C5: a run of the fan-out that fails (recipient lookup or bulk insert)
\* leaves the Notice collection as it is and the request answers as it does
\* after a successful run: 201 for Create, 200 for Update.
C5_FanoutFailureContained ==
    [][\A p \in Procs :
         (FanoutStep(p) /\ req'[p].fanout = "failed")
         => /\ notices' = notices
            /\ req'[p].status = IF req[p].op = "create" THEN 201 ELSE 200
            /\ req[p].op = "create" => req[p].wrote
      ]_vars

C5_Witness ==
    \E p \in Procs :
        /\ Done(p) /\ req[p].fanout = "failed"
        /\ req[p].op = "update" /\ req[p].status = 200
        /\ req[p].updated.exists /\ notices[req[p].id] = req[p].updated

\* ---- C6 ------------------------------------------------------------------
\* C6: for any User collection and any audience of a published notice, the
\* users the fan-out finds are exactly the students the audience admits
\* (branch in the branch set, year in the year set, a set that is absent or
\* holds "All" admitting everyone), each found once, and the fan-out inserts
\* one notification for each of them and for nobody else.
C6_RecipientSet ==
    \A p \in Procs :
        (Done(p) /\ req[p].fanout = "ok")
        => LET admitted == { u.id : u \in { v \in UsersOf : IsRecipient(v, req[p].notice) } }
           IN  /\ Elems(req[p].found) = admitted
               /\ Len(req[p].found) = Cardinality(admitted)
               /\ Len(req[p].added) = Cardinality(admitted)
               /\ \A uid \in UserIds :
                    Copies(notifs, req[p].id, uid) = IF uid \in admitted THEN 1 ELSE 0

\* A notice with a wildcard branch set and a year set reached a proper,
\* non-empty part of the students.
C6_Witness ==
    \E p \in Procs :
        /\ Done(p) /\ req[p].fanout = "ok"
        /\ req[p].notice.targetAudience = Audience(Arr(<<"EEE", "All">>), Arr(<<"2">>))
        /\ Elems(req[p].found) = {"s2", "s3"}
        /\ Len(users) = Len(UserUniverse)


NewerThan(d, M) == Cardinality({ e \in M : e.createdAt > d.createdAt })

Min(a, b) == IF a <= b THEN a ELSE b
Max(a, b) == IF a >= b THEN a ELSE b

\* C8: a listing of page p >= 1 with size s >= 1 whose matching set did not
\* change during the request answers total = the size of the matching set,
\* totalPages = ceil(total / s) (the least n with n * s >= total),
\* count = min(s, max(0, total - (p - 1) * s)), and data = the notices at
\* positions (p - 1) * s + 1 .. (p - 1) * s + count of the matching set taken
\* newest first.
C8_Pagination ==
    (list.pc = "done" /\ ~list.modified)
    => LET M == list.matching
           s == list.limit
           pg == list.page
           total == Cardinality(M)
       IN  /\ list.status = 200
           /\ list.total = total
           /\ list.totalPages * s >= total
           /\ \A n \in 0..total : n * s >= total => list.totalPages <= n
           /\ list.count = Min(s, Max(0, total - (pg - 1) * s))
           /\ Len(list.data) = list.count
           /\ \A k \in 1..Len(list.data) :
                /\ list.data[k] \in M
                /\ NewerThan(list.data[k], M) = (pg - 1) * s + k - 1

\* Four matching notices, size 3: page 2 holds the oldest one alone.
C8_Witness ==
    /\ list.pc = "done" /\ ~list.modified
    /\ list.total = 4 /\ list.limit = 3 /\ list.page = 2
    /\ list.totalPages = 2 /\ list.count = 1
    /\ list.data[1].id = 1

\* ---- C9 ------------------------------------------------------------------
\* C9 as stated: an Update that answered 200 found its notice stored when
\* its write was applied (an Update whose target is absent then answers 404).
C9_UpdateSuccessNeedsNotice ==
    \A p \in Procs :
        (Done(p) /\ req[p].op = "update" /\ req[p].status = 200)
        => req[p].targetAtWrite.exists /\ req[p].updated.exists

\* ---- C10 -----------------------------------------------------------------
\* C10 as stated: the Notification collection never holds two notifications
\* for the same (notice id, recipient) pair.
C10_OneNotificationPerPair ==
    \A id \in NoticeIds, uid \in UserIds : Copies(notifs, id, uid) <= 1

====
